---- MODULE Spec2Model ----
(***************************************************************************)
(* A model of models.py: the NearEarthObject and CloseApproach entities,   *)
(* their construction-time normalisation, their derived accessors and the  *)
(* two public mutation points (NearEarthObject.approaches and              *)
(* CloseApproach.neo) through which the entities are linked.               *)
(*                                                                         *)
(* Python values are tagged records: the tag t names the Python type and   *)
(* one further field carries the payload.  Text is a TLA+ string.  A       *)
(* float is an IEEE 754 double: NaN, +inf, -inf, or the finite number      *)
(* (-1)^neg * mant * 2^exp, where mant is the decimal numeral of an odd    *)
(* integer below 2^53, or "0" for the two zeros.                           *)
(***************************************************************************)
EXTENDS Integers, Sequences, FiniteSets, TLC

VARIABLES neos, cas, neoKw, caKw, appended, result

vars == <<neos, cas, neoKw, caKw, appended, result>>

(***************************************************************************)
(* Bounds of the model.                                                    *)
(***************************************************************************)
\* the number of objects and approaches constructed in one behaviour
MaxObjects == 4
\* the number of appends to approaches lists in one behaviour
MaxAppends == 2

(***************************************************************************)
(* Python values.                                                          *)
(***************************************************************************)
None == [t |-> "none"]
PyStr(s) == [t |-> "str", s |-> s]
PyInt(n) == [t |-> "int", n |-> n]
PyBool(b) == [t |-> "bool", b |-> b]
PyList(l) == [t |-> "list", l |-> l]
NeoRef(i) == [t |-> "neo", id |-> i]
Raised(e) == [t |-> "error", e |-> e]
IsError(v) == v.t = "error"

\* kwargs.get(key): the value under the key, None when the key is absent.
Get(kw, key) == IF key \in DOMAIN kw THEN kw[key] ELSE None

\* Python truth value testing, as used by every "x if x else default".
\* Instances of NearEarthObject and datetime define neither __bool__ nor
\* __len__, so they are always true; NaN is a non-zero float and is true.
Truthy(v) ==
    CASE v.t = "none" -> FALSE
      [] v.t = "str" -> v.s # ""
      [] v.t = "int" -> v.n # 0
      [] v.t = "bool" -> v.b
      [] v.t = "float" -> ~(v.k = "fin" /\ v.mant = "0")
      [] v.t = "list" -> v.l # <<>>
      [] v.t = "neo" -> TRUE
      [] v.t = "datetime" -> TRUE

\* value == 'Y': a str compares equal to a str with the same characters and
\* unequal to a value of any other type modelled here.
EqualsStr(v, s) == v.t = "str" /\ v.s = s

(***************************************************************************)
(* Text helpers.  Operators over a whole text split it in halves, so that  *)
(* the depth of evaluation grows with the logarithm of its length.         *)
(***************************************************************************)
Digits == "0123456789"
UpperCase == "ABCDEFGHIJKLMNOPQRSTUVWXYZ"
LowerCase == "abcdefghijklmnopqrstuvwxyz"

CharAt(s, i) == SubSeq(s, i, i)
IndexIn(alphabet, c) ==
    IF \E i \in 1..Len(alphabet) : CharAt(alphabet, i) = c
    THEN CHOOSE i \in 1..Len(alphabet) : CharAt(alphabet, i) = c
    ELSE 0
DigitChars == {CharAt(Digits, i) : i \in 1..Len(Digits)}
IsDigit(c) == c \in DigitChars
AllDigits(s) == \A i \in 1..Len(s) : IsDigit(CharAt(s, i))

DigitVal == [c \in DigitChars |-> IndexIn(Digits, c) - 1]
DigitChar(d) == CharAt(Digits, d + 1)

Abs(n) == IF n < 0 THEN -n ELSE n
Min(a, b) == IF a < b THEN a ELSE b
Least(S) == CHOOSE x \in S : \A y \in S : x <= y
Greatest(S) == CHOOSE x \in S : \A y \in S : y <= x

RECURSIVE StrToNat(_)
StrToNat(s) ==
    IF s = "" THEN 0
    ELSE StrToNat(SubSeq(s, 1, Len(s) - 1)) * 10 + DigitVal[CharAt(s, Len(s))]

RECURSIVE NatToStr(_)
NatToStr(n) ==
    IF n < 10 THEN DigitChar(n)
    ELSE NatToStr(n \div 10) \o DigitChar(n % 10)

RECURSIVE ZeroPad(_, _)
ZeroPad(s, width) == IF Len(s) >= width THEN s ELSE ZeroPad("0" \o s, width)

LowerOf ==
    [c \in {CharAt(UpperCase, i) : i \in 1..Len(UpperCase)} |->
        CharAt(LowerCase, IndexIn(UpperCase, c))]
LowerChar(c) == IF c \in DOMAIN LowerOf THEN LowerOf[c] ELSE c

RECURSIVE LowerRange(_, _, _)
LowerRange(s, lo, hi) ==
    IF lo > hi THEN ""
    ELSE IF lo = hi THEN LowerChar(CharAt(s, lo))
    ELSE LET mid == (lo + hi) \div 2
         IN  LowerRange(s, lo, mid) \o LowerRange(s, mid + 1, hi)

Lower(s) == LowerRange(s, 1, Len(s))

\* The characters that are not printable, by code.  ControlChars holds the
\* ASCII control characters 1 to 31: tab (9), newline (10), form feed (12) and
\* carriage return (13) are written as escapes and the others as themselves.
\* HighControlChars holds the characters 128 to 160, the last of them the
\* no-break space; Delete is 127 and SoftHyphen 173.
ControlChars ==
    <<"", "", "", "", "", "", "", "",
      "\t", "\n", "", "\f", "\r", "", "", "",
      "", "", "", "", "", "", "", "",
      "", "", "", "", "", "", "">>
Delete == ""
HighControlChars ==
    <<"", "", "", "", "", "", "", "",
      "", "", "", "", "", "", "", "",
      "", "", "", "", "", "", "", "",
      "", "", "", "", "", "", "", "",
      " ">>
SoftHyphen == "­"
NextLine == HighControlChars[6]
NoBreakSpace == HighControlChars[33]

\* The characters float() skips around a numeral: space, tab, newline,
\* vertical tab, form feed, carriage return, next line (133) and no-break
\* space (160).
Whitespace ==
    {" ", NextLine, NoBreakSpace} \cup {ControlChars[i] : i \in 9..13}

LStrip(s) ==
    LET ink == {i \in 1..Len(s) : CharAt(s, i) \notin Whitespace}
    IN  IF ink = {} THEN "" ELSE SubSeq(s, Least(ink), Len(s))

RStrip(s) ==
    LET ink == {i \in 1..Len(s) : CharAt(s, i) \notin Whitespace}
    IN  IF ink = {} THEN "" ELSE SubSeq(s, 1, Greatest(ink))

Strip(s) == RStrip(LStrip(s))

\* The first position in s of a character of the set, 0 when there is none.
FirstIndex(s, chars) ==
    LET at == {i \in 1..Len(s) : CharAt(s, i) \in chars}
    IN  IF at = {} THEN 0 ELSE Least(at)

(***************************************************************************)
(* Arithmetic on numerals of any length.  A numeral is a sequence of       *)
(* limbs, each four decimal digits (a number below Base), most significant *)
(* first; the empty sequence is zero.  Bits are moved ChunkBits at a time, *)
(* which keeps every intermediate product within 32-bit integers.          *)
(***************************************************************************)
Base == 10000
LimbDigits == 4
ChunkBits == 16
Chunk == 65536

RECURSIVE Pow(_, _)
Pow(b, n) == IF n = 0 THEN 1 ELSE b * Pow(b, n - 1)
Pow2 == [n \in 0..ChunkBits |-> Pow(2, n)]
Pow10 == [n \in 0..LimbDigits |-> Pow(10, n)]

RECURSIVE BitLen(_)
BitLen(v) == IF v = 0 THEN 0 ELSE 1 + BitLen(v \div 2)

ToDigits(s) == [i \in 1..Len(s) |-> DigitVal[CharAt(s, i)]]

RECURSIVE DigitsRange(_, _, _)
DigitsRange(d, lo, hi) ==
    IF lo > hi THEN ""
    ELSE IF lo = hi THEN DigitChar(d[lo])
    ELSE LET mid == (lo + hi) \div 2
         IN  DigitsRange(d, lo, mid) \o DigitsRange(d, mid + 1, hi)

FromDigits(d) == DigitsRange(d, 1, Len(d))

Zeros(n) == [i \in 1..n |-> 0]

StripLeadingZeros(d) ==
    IF \A i \in 1..Len(d) : d[i] = 0 THEN <<>>
    ELSE SubSeq(d, CHOOSE i \in 1..Len(d) : d[i] # 0, Len(d))

StripTrailingZeros(d) ==
    IF \A i \in 1..Len(d) : d[i] = 0 THEN <<>>
    ELSE SubSeq(d, 1, Len(d) - CHOOSE k \in 0..(Len(d) - 1) : d[Len(d) - k] # 0)

\* The limbs of the integer with decimal digits d, and of the fraction 0.d.
IntLimbs(d) ==
    LET n == (Len(d) + LimbDigits - 1) \div LimbDigits
        pad == Zeros(n * LimbDigits - Len(d)) \o d
    IN  [i \in 1..n |->
            1000 * pad[4 * i - 3] + 100 * pad[4 * i - 2]
            + 10 * pad[4 * i - 1] + pad[4 * i]]

FracLimbs(d) ==
    LET n == (Len(d) + LimbDigits - 1) \div LimbDigits
        pad == d \o Zeros(n * LimbDigits - Len(d))
    IN  [i \in 1..n |->
            1000 * pad[4 * i - 3] + 100 * pad[4 * i - 2]
            + 10 * pad[4 * i - 1] + pad[4 * i]]

\* The decimal digits of a numeral, without a leading zero.
DigitsOfLimbs(l) ==
    StripLeadingZeros(
        [i \in 1..(LimbDigits * Len(l)) |->
            (l[(i - 1) \div LimbDigits + 1]
                \div Pow10[LimbDigits - 1 - ((i - 1) % LimbDigits)]) % 10])

\* Multiplication by m <= Chunk, limb by limb from the right: st is <<the
\* limbs found, the carry, the number of limbs to go>>, advanced by up to n
\* limbs.
RECURSIVE MulFrom(_, _, _, _)
MulFrom(l, m, st, n) ==
    IF st[3] = 0 \/ n = 0 THEN st
    ELSE IF n = 1
         THEN LET v == l[st[3]] * m + st[2]
              IN  <<<<v % Base>> \o st[1], v \div Base, st[3] - 1>>
    ELSE MulFrom(l, m, MulFrom(l, m, st, n \div 2), n - n \div 2)

\* <<the low Len(l) limbs of l * m + c, the carry out of them>>
MulSmall(l, m, c) ==
    LET r == MulFrom(l, m, <<<<>>, c, Len(l)>>, Len(l)) IN <<r[1], r[2]>>

\* Division by m <= Chunk, limb by limb from the left: st is <<the limbs of
\* the quotient found, the remainder>>, advanced by up to n limbs.
RECURSIVE DivFrom(_, _, _, _)
DivFrom(l, m, st, n) ==
    IF Len(st[1]) = Len(l) \/ n = 0 THEN st
    ELSE IF n = 1
         THEN LET v == st[2] * Base + l[Len(st[1]) + 1]
              IN  <<Append(st[1], v \div m), v % m>>
    ELSE DivFrom(l, m, DivFrom(l, m, st, n \div 2), n - n \div 2)

\* <<(r * Base^Len(l) + l) \div m, its remainder>>, r < m
DivSmall(l, m, r) == DivFrom(l, m, <<<<>>, r>>, Len(l))

\* l * m + c as a numeral
Times(l, m, c) == StripLeadingZeros(MulSmall(<<0, 0>> \o l, m, c)[1])

IsOdd(l) == l # <<>> /\ l[Len(l)] % 2 = 1

\* d + 1, the digits of d being below base
Increment(d, base) ==
    IF \A i \in 1..Len(d) : d[i] = base - 1 THEN <<1>> \o Zeros(Len(d))
    ELSE LET j == Len(d) - CHOOSE k \in 0..(Len(d) - 1) : d[Len(d) - k] # base - 1
         IN  [i \in 1..Len(d) |->
                 IF i < j THEN d[i] ELSE IF i = j THEN d[i] + 1 ELSE 0]

\* The chunks of a numeral: st is <<what is left of the numeral, the chunks
\* found>>, advanced by up to n divisions.
RECURSIVE IntChunksFrom(_, _)
IntChunksFrom(st, n) ==
    IF st[1] = <<>> \/ n = 0 THEN st
    ELSE IF n = 1
         THEN LET q == DivSmall(st[1], Chunk, 0)
              IN  <<StripLeadingZeros(q[1]), <<q[2]>> \o st[2]>>
    ELSE IntChunksFrom(IntChunksFrom(st, n \div 2), n - n \div 2)

\* The number of bits of a numeral.
BitLength(l) ==
    LET c == IntChunksFrom(<<l, <<>>>>, Len(l))[2]
    IN  IF c = <<>> THEN 0 ELSE ChunkBits * (Len(c) - 1) + BitLen(c[1])

\* <<the odd part of a numeral, the number of its trailing zero bits>>
RECURSIVE OddPart(_)
OddPart(l) ==
    IF l = <<>> THEN <<l, 0>>
    ELSE LET q == DivSmall(l, Chunk, 0)
         IN  IF q[2] = 0
             THEN LET r == OddPart(StripLeadingZeros(q[1]))
                  IN  <<r[1], r[2] + ChunkBits>>
             ELSE LET z == CHOOSE k \in 0..(ChunkBits - 1) :
                               (q[2] \div Pow2[k]) % 2 = 1
                  IN  <<StripLeadingZeros(DivSmall(l, Pow2[z], 0)[1]), z>>

\* l * 2^n
RECURSIVE DoubleTimes(_, _)
DoubleTimes(l, n) ==
    IF n = 0 \/ l = <<>> THEN l
    ELSE IF n <= ChunkBits THEN Times(l, Pow2[n], 0)
    ELSE DoubleTimes(DoubleTimes(l, ChunkBits * ((n \div ChunkBits + 1) \div 2)),
                     n - ChunkBits * ((n \div ChunkBits + 1) \div 2))

\* st is <<a numeral, the bit shifted out of it last, whether a bit shifted
\* out before that was set>>; the result is st shifted n more bits down.
RECURSIVE HalveTimes(_, _)
HalveTimes(st, n) ==
    IF n = 0 THEN st
    ELSE IF st[1] = <<>> THEN <<<<>>, FALSE, st[2] \/ st[3]>>
    ELSE IF n <= ChunkBits
         THEN LET q == DivSmall(st[1], Pow2[n], 0)
                  half == Pow2[n - 1]
              IN  <<StripLeadingZeros(q[1]), q[2] >= half,
                    st[2] \/ st[3] \/ (q[2] % half) # 0>>
    ELSE HalveTimes(HalveTimes(st, ChunkBits * ((n \div ChunkBits + 1) \div 2)),
                    n - ChunkBits * ((n \div ChunkBits + 1) \div 2))

(***************************************************************************)
(* Floats.  A finite float is the IEEE 754 binary64 number                  *)
(* (-1)^neg * mant * 2^exp with mant odd, written in decimal, of at most   *)
(* MantBits bits, or a zero (mant = "0", exp = 0) of either sign.          *)
(***************************************************************************)
MantBits == 53
MaxExp == 1024
MinExp == -1074

Float(neg, mant, exp) ==
    [t |-> "float", k |-> "fin", neg |-> neg, mant |-> mant, exp |-> exp]
NaN == [t |-> "float", k |-> "nan", neg |-> FALSE, mant |-> "0", exp |-> 0]
PosInf == [t |-> "float", k |-> "inf", neg |-> FALSE, mant |-> "0", exp |-> 0]
NegInf == [t |-> "float", k |-> "ninf", neg |-> TRUE, mant |-> "0", exp |-> 0]
Zero(neg) == Float(neg, "0", 0)
Infinity(neg) == IF neg THEN NegInf ELSE PosInf

\* x < 0 for a float x
IsNegative(f) == f.k = "ninf" \/ (f.k = "fin" /\ f.neg /\ f.mant # "0")

\* The number scaled up until it shows enough bits: multiplying a fraction
\* by Chunk carries its next ChunkBits bits out.  st holds the limbs of the
\* fraction left (no trailing zero limb), the numeral of the bits out so
\* far, their number from the leading set bit on and the number of chunks
\* taken; scaling stops when the fraction is exhausted, when MantBits + 1
\* significant bits are out or below half the smallest subnormal.
RECURSIVE FracChunksFrom(_, _)
FracChunksFrom(st, n) ==
    IF \/ st.frac = <<>> \/ st.sig > MantBits
       \/ ChunkBits * st.count > -MinExp \/ n = 0
    THEN st
    ELSE IF n = 1
         THEN LET r == MulSmall(st.frac, Chunk, 0)
              IN  [frac |-> StripTrailingZeros(r[1]),
                   num |-> Times(st.num, Chunk, r[2]),
                   sig |-> IF st.sig > 0 THEN st.sig + ChunkBits
                           ELSE BitLen(r[2]),
                   count |-> st.count + 1]
    ELSE FracChunksFrom(FracChunksFrom(st, n \div 2), n - n \div 2)

\* The number whole.frac, both given in limbs, scaled up by Chunk until the
\* fraction is exhausted or enough bits show.
Scaled(whole, frac) ==
    FracChunksFrom([frac |-> frac, num |-> whole, sig |-> BitLength(whole),
                    count |-> 0],
                   -MinExp \div ChunkBits + 1)

\* Of the sig bits of a scaled number the leading ones are kept: MantBits of
\* them, or as many as lie at or above the unit of the smallest subnormal.
KeepBits(fc) ==
    Min(MantBits, Min(fc.sig, fc.sig - ChunkBits * fc.count - MinExp))

\* Rounding to nearest, ties to even: sh is <<a numeral, the bit shifted out
\* of it last, whether a bit shifted out before that was set>>.
RoundHalfEven(sh) ==
    IF sh[2] /\ (sh[3] \/ IsOdd(sh[1])) THEN Increment(sh[1], Base) ELSE sh[1]

\* The float (-1)^neg * r[1] * 2^(exp + r[2]), r the odd part of a mantissa
\* of keep bits before rounding; rounding up to a power of two adds a bit.
Assemble(neg, r, keep, exp) ==
    IF r[1] = <<>> THEN Zero(neg)
    ELSE IF exp + keep + (IF r[1] = <<1>> /\ r[2] = keep THEN 1 ELSE 0) > MaxExp
         THEN Infinity(neg)
    ELSE Float(neg, FromDigits(DigitsOfLimbs(r[1])), exp + r[2])

RoundKept(neg, fc, keep) ==
    IF fc.sig = 0 \/ keep < 0 THEN Zero(neg)
    ELSE Assemble(neg,
                  OddPart(RoundHalfEven(
                      HalveTimes(<<fc.num, FALSE, fc.frac # <<>>>>,
                                 fc.sig - keep))),
                  keep, fc.sig - ChunkBits * fc.count - keep)

RoundScaled(neg, fc) == RoundKept(neg, fc, KeepBits(fc))

\* The double nearest to (-1)^neg * whole.frac, ties to the even mantissa;
\* whole and frac are sequences of decimal digits, whole without a leading
\* and frac without a trailing zero.
RoundToDouble(neg, whole, frac) ==
    RoundScaled(neg, Scaled(IntLimbs(whole), FracLimbs(frac)))

\* The digits of 0.d * 10^p before and after the point.
WholeDigits(d, p) ==
    IF p <= 0 THEN <<>>
    ELSE IF p >= Len(d) THEN d \o Zeros(p - Len(d))
    ELSE SubSeq(d, 1, p)

FracDigits(d, p) ==
    IF p <= 0 THEN StripTrailingZeros(Zeros(-p) \o d)
    ELSE IF p >= Len(d) THEN <<>>
    ELSE StripTrailingZeros(SubSeq(d, p + 1, Len(d)))

\* The double nearest to (-1)^neg * 0.d * 10^p, d without a leading zero.
\* A numeral of 10^310 or more is beyond the largest double and one below
\* 10^(-330) is below half the smallest.
Scientific(neg, d, p) ==
    IF d = <<>> THEN Zero(neg)
    ELSE IF p > 310 THEN Infinity(neg)
    ELSE IF p < -330 THEN Zero(neg)
    ELSE RoundToDouble(neg, WholeDigits(d, p), FracDigits(d, p))

\* The double nearest to (-1)^neg * 0.digits * 10^point.
DecimalToDouble(neg, digits, point) ==
    Scientific(neg, StripLeadingZeros(digits),
               point - (Len(digits) - Len(StripLeadingZeros(digits))))

(***************************************************************************)
(* float(x), as the constructors apply it to a truthy input.  A str is     *)
(* parsed: surrounding white space is stripped, then an optional sign,     *)
(* then "inf", "infinity" or "nan" in any letter case, or a decimal        *)
(* numeral: digits with at most one point and at least one digit, then an  *)
(* optional exponent ("e" or "E", an optional sign, digits).  Within a run *)
(* of digits single underscores may separate digits.  Anything else raises *)
(* ValueError.  The numeral is rounded to the nearest double.              *)
(***************************************************************************)
\* digit (["_"] digit)*
IsDigitPart(s) ==
    /\ s # ""
    /\ \A i \in 1..Len(s) :
          \/ IsDigit(CharAt(s, i))
          \/ /\ CharAt(s, i) = "_"
             /\ 1 < i /\ i < Len(s)
             /\ IsDigit(CharAt(s, i - 1)) /\ IsDigit(CharAt(s, i + 1))

\* The digits of a digit part, its underscores left out.
RECURSIVE WithoutUnderscores(_, _, _)
WithoutUnderscores(s, lo, hi) ==
    IF lo > hi THEN ""
    ELSE IF lo = hi THEN (IF CharAt(s, lo) = "_" THEN "" ELSE CharAt(s, lo))
    ELSE LET mid == (lo + hi) \div 2
         IN  WithoutUnderscores(s, lo, mid) \o WithoutUnderscores(s, mid + 1, hi)

DigitsOf(s) == ToDigits(WithoutUnderscores(s, 1, Len(s)))

\* The value of an exponent's digits.  An exponent of more than nine
\* significant digits counts as MaxAbsExp, beyond which every numeral
\* overflows or underflows alike.
MaxAbsExp == 1100000000
ExponentValue(s) ==
    IF Len(StripLeadingZeros(DigitsOf(s))) > 9 THEN MaxAbsExp
    ELSE StrToNat(FromDigits(StripLeadingZeros(DigitsOf(s))))

\* A text without its sign, and whether the sign is a minus.
Unsigned(s) == IF s # "" /\ CharAt(s, 1) \in {"+", "-"} THEN Tail(s) ELSE s
IsMinus(s) == s # "" /\ CharAt(s, 1) = "-"

\* The text before and after the first character of the set in s: all of s
\* and nothing when there is none.
Before(s, chars) ==
    IF FirstIndex(s, chars) = 0 THEN s
    ELSE SubSeq(s, 1, FirstIndex(s, chars) - 1)
After(s, chars) ==
    IF FirstIndex(s, chars) = 0 THEN ""
    ELSE SubSeq(s, FirstIndex(s, chars) + 1, Len(s))

ExponentMarks == {"e", "E"}
Point == {"."}

ParseExponent(s) ==
    IF IsMinus(s) THEN -ExponentValue(Unsigned(s)) ELSE ExponentValue(Unsigned(s))

ParseDecimal(neg, whole, frac, hasExponent, exponent) ==
    IF /\ whole = "" \/ IsDigitPart(whole)
       /\ frac = "" \/ IsDigitPart(frac)
       /\ whole # "" \/ frac # ""
       /\ hasExponent => IsDigitPart(Unsigned(exponent))
    THEN DecimalToDouble(neg, DigitsOf(whole) \o DigitsOf(frac),
                         Len(DigitsOf(whole))
                         + (IF hasExponent THEN ParseExponent(exponent) ELSE 0))
    ELSE Raised("ValueError")

ParseUnsigned(neg, body) ==
    IF Lower(body) \in {"inf", "infinity"} THEN Infinity(neg)
    ELSE IF Lower(body) = "nan" THEN NaN
    ELSE ParseDecimal(neg,
                      Before(Before(body, ExponentMarks), Point),
                      After(Before(body, ExponentMarks), Point),
                      FirstIndex(body, ExponentMarks) # 0,
                      After(body, ExponentMarks))

ParseFloat(s) == ParseUnsigned(IsMinus(Strip(s)), Unsigned(Strip(s)))

\* float(n) for an int n
IntToFloat(n) ==
    LET d == ToDigits(NatToStr(Abs(n))) IN DecimalToDouble(n < 0, d, Len(d))

ToFloat(v) ==
    CASE v.t = "str" -> ParseFloat(v.s)
      [] v.t = "int" -> IntToFloat(v.n)
      [] v.t = "bool" -> IntToFloat(IF v.b THEN 1 ELSE 0)
      [] v.t = "float" -> v
      [] OTHER -> Raised("TypeError")

\* l * 2^n for n of either sign, with the bits shifted out as HalveTimes
\* gives them.
ShiftBits(l, n) ==
    IF n >= 0 THEN <<DoubleTimes(StripLeadingZeros(l), n), FALSE, FALSE>>
    ELSE HalveTimes(<<StripLeadingZeros(l), FALSE, FALSE>>, -n)

\* Digits padded with zeros on the left to a width, and written with a point
\* before the last p of them.
PadLeft(d, width) == Zeros(width - Len(d)) \o d
PointBefore(d, p) ==
    DigitsRange(d, 1, Len(d) - p) \o "." \o DigitsRange(d, Len(d) - p + 1, Len(d))

\* format(x, ".<p>f"): the exact value of the double, rounded to p decimals
\* with ties to the even last digit.
FormatDouble(f, p) ==
    IF f.k = "nan" THEN "nan"
    ELSE IF f.k = "inf" THEN "inf"
    ELSE IF f.k = "ninf" THEN "-inf"
    ELSE (IF f.neg THEN "-" ELSE "")
         \o PointBefore(
                PadLeft(DigitsOfLimbs(RoundHalfEven(
                            ShiftBits(IntLimbs(ToDigits(f.mant) \o Zeros(p)),
                                      f.exp))),
                        p + 1),
                p)

\* The values passed for the numeric keywords.  Absent marks a keyword that
\* is not passed at all.
Absent == [t |-> "absent"]
DiameterInputs ==
    {Absent, None, PyInt(0), Zero(FALSE), PyStr(""), PyStr("0"), PyStr("0.0"),
     PyStr("-1"), PyStr("inf"), PyStr("-inf"), PyStr("nan"), PyStr("16.84"),
     PyStr("abc"), PyInt(2), Float(FALSE, "3", -1), NaN, PyStr("1e3"),
     PyStr(NoBreakSpace \o " 1.5\n"), PyStr("-0"), PyStr("1.2349"),
     PyStr("1e400")}
DistanceInputs ==
    {Absent, None, PyStr(""), PyStr("0.5"), PyStr("0"), PyInt(0),
     Float(FALSE, "1", -2), PyStr("abc"), PyStr("0.015")}
VelocityInputs ==
    {Absent, PyStr(""), PyStr("12.3"), PyStr("-1"), PyStr("1_0.5e1")}

\* The floats the constructors make of those values, and the precisions the
\* program prints with.
InputFloats ==
    {NaN, Zero(FALSE)} \cup
    {x \in {ToFloat(v) : v \in DiameterInputs \cup DistanceInputs
                                   \cup VelocityInputs} : x.t = "float"}
FixedPlaces == {2, 3}

\* FormatDouble tabulated over the floats of the inputs, so that a value
\* printed many times is rounded once.
FixedTable == [f \in InputFloats, p \in FixedPlaces |-> FormatDouble(f, p)]

FormatFixed(f, p) ==
    IF f \in InputFloats /\ p \in FixedPlaces THEN FixedTable[f, p]
    ELSE FormatDouble(f, p)

\* str(x) and the default formatting of an f-string field.
Str(v) ==
    CASE v.t = "str" -> v.s
      [] v.t = "none" -> "None"
      [] v.t = "bool" -> (IF v.b THEN "True" ELSE "False")
      [] v.t = "int" -> (IF v.n < 0 THEN "-" ELSE "") \o NatToStr(Abs(v.n))

\* repr(x), the "!r" conversion.  A str is quoted with single quotes, or
\* with double quotes when it holds a single quote and no double quote; the
\* quote in use and the backslash are escaped with a backslash, tab, newline
\* and carriage return are written \t, \n and \r, and every other character
\* that is not printable as \x and the two hexadecimal digits of its code.
HexDigits == "0123456789abcdef"
HexByte(n) == CharAt(HexDigits, n \div 16 + 1) \o CharAt(HexDigits, (n % 16) + 1)

ControlSet ==
    {ControlChars[i] : i \in 1..Len(ControlChars)}
    \cup {HighControlChars[i] : i \in 1..Len(HighControlChars)}
    \cup {Delete, SoftHyphen}
ControlCode(c) ==
    IF c = Delete THEN 127
    ELSE IF c = SoftHyphen THEN 173
    ELSE IF \E i \in 1..Len(HighControlChars) : HighControlChars[i] = c
         THEN 127 + CHOOSE i \in 1..Len(HighControlChars) : HighControlChars[i] = c
    ELSE CHOOSE i \in 1..Len(ControlChars) : ControlChars[i] = c

ReprChar(c, quote) ==
    CASE c = quote -> "\\" \o quote
      [] c = "\\" -> "\\\\"
      [] c = "\t" -> "\\t"
      [] c = "\n" -> "\\n"
      [] c = "\r" -> "\\r"
      [] c \in ControlSet /\ c \notin {"\t", "\n", "\r"}
            -> "\\x" \o HexByte(ControlCode(c))
      [] OTHER -> c

RECURSIVE ReprRange(_, _, _, _)
ReprRange(s, lo, hi, quote) ==
    IF lo > hi THEN ""
    ELSE IF lo = hi THEN ReprChar(CharAt(s, lo), quote)
    ELSE LET mid == (lo + hi) \div 2
         IN  ReprRange(s, lo, mid, quote) \o ReprRange(s, mid + 1, hi, quote)

\* The characters that repr may write otherwise than as themselves; a text
\* with none of them is written as it is, between single quotes.
Escapable == ControlSet \cup {"'", "\\"}

ReprStr(s) ==
    IF \A i \in 1..Len(s) : CharAt(s, i) \notin Escapable THEN "'" \o s \o "'"
    ELSE LET quote == IF FirstIndex(s, {"'"}) # 0 /\ FirstIndex(s, {"\""}) = 0
                      THEN "\"" ELSE "'"
         IN  quote \o ReprRange(s, 1, Len(s), quote) \o quote

Repr(v) ==
    CASE v.t = "str" -> ReprStr(v.s)
      [] OTHER -> Str(v)

(***************************************************************************)
(* The date helpers (helpers.py) are imported, not defined, by models.py.  *)
(* cd_to_datetime reads a calendar date "YYYY-Mon-DD hh:mm"; a text that   *)
(* is not one raises ValueError.  datetime_to_str writes a timestamp back  *)
(* to the minute.                                                          *)
(***************************************************************************)
Months == <<"Jan", "Feb", "Mar", "Apr", "May", "Jun",
            "Jul", "Aug", "Sep", "Oct", "Nov", "Dec">>

cd_to_datetime(v) ==
    IF v.t # "str" THEN Raised("TypeError")
    ELSE LET s == v.s
             y == SubSeq(s, 1, 4)
             mon == SubSeq(s, 6, 8)
             d == SubSeq(s, 10, 11)
             h == SubSeq(s, 13, 14)
             mi == SubSeq(s, 16, 17)
         IN  IF /\ Len(s) = 17
                /\ CharAt(s, 5) = "-" /\ CharAt(s, 9) = "-"
                /\ CharAt(s, 12) = " " /\ CharAt(s, 15) = ":"
                /\ AllDigits(y) /\ AllDigits(d) /\ AllDigits(h) /\ AllDigits(mi)
                /\ \E k \in 1..12 : Months[k] = mon
                /\ StrToNat(d) \in 1..31 /\ StrToNat(h) < 24 /\ StrToNat(mi) < 60
             THEN [t |-> "datetime", year |-> StrToNat(y),
                   month |-> CHOOSE k \in 1..12 : Months[k] = mon,
                   day |-> StrToNat(d), hour |-> StrToNat(h),
                   minute |-> StrToNat(mi)]
             ELSE Raised("ValueError")

datetime_to_str(dt) ==
    ZeroPad(NatToStr(dt.year), 4) \o "-" \o Months[dt.month] \o "-"
    \o ZeroPad(NatToStr(dt.day), 2) \o " " \o ZeroPad(NatToStr(dt.hour), 2)
    \o ":" \o ZeroPad(NatToStr(dt.minute), 2)

(***************************************************************************)
(* NearEarthObject.                                                        *)
(***************************************************************************)
NeoDesignation(kw) ==
    IF Truthy(Get(kw, "designation")) THEN Get(kw, "designation") ELSE PyStr("")

\* a constructor that stores the name as given
NeoName_AsGiven(kw) == Get(kw, "name")

NeoName(kw) == IF Truthy(Get(kw, "name")) THEN Get(kw, "name") ELSE None

\* a constructor that tests the diameter for None instead of for truth
NeoDiameter_NotNone(kw) ==
    IF Get(kw, "diameter") # None THEN ToFloat(Get(kw, "diameter")) ELSE NaN

\* a constructor that treats an out-of-range diameter as unknown
NeoDiameter_Validated(kw) ==
    LET x == IF Truthy(Get(kw, "diameter")) THEN ToFloat(Get(kw, "diameter"))
             ELSE NaN
    IN  IF x.t = "float" /\ (x.k \in {"inf", "ninf"} \/ IsNegative(x)) THEN NaN ELSE x

NeoDiameter(kw) ==
    IF Truthy(Get(kw, "diameter")) THEN ToFloat(Get(kw, "diameter")) ELSE NaN

\* a constructor that tests the flag for truth
NeoHazardous_Truthy(kw) == Truthy(Get(kw, "hazardous"))

NeoHazardous(kw) == EqualsStr(Get(kw, "hazardous"), "Y")

\* a constructor that honours the documented "approaches" parameter
NeoApproaches_FromKwargs(kw) ==
    IF "approaches" \in DOMAIN kw THEN kw.approaches.l ELSE <<>>

NeoApproaches(kw) == <<>>

\* __init__ raises what float() raises; nothing else in it can fail.
NeoInitRaises(kw) == IsError(NeoDiameter(kw))

InitNEO(kw) ==
    [designation |-> NeoDesignation(kw),
     name |-> NeoName(kw),
     diameter |-> NeoDiameter(kw),
     hazardous |-> NeoHazardous(kw),
     approaches |-> NeoApproaches(kw)]

NeoFullname(o) ==
    IF Truthy(o.name)
    THEN Str(o.designation) \o " (" \o Str(o.name) \o ")"
    ELSE Str(o.designation)

\* a serialize that converts the name without testing it
NeoSerializeName_Unguarded(o) == Str(o.name)

NeoSerializeName(o) == IF Truthy(o.name) THEN Str(o.name) ELSE ""

NeoSerialize(o) ==
    [t |-> "dict",
     d |-> [designation |-> Str(o.designation),
            name |-> NeoSerializeName(o),
            diameter_km |-> o.diameter,
            potentially_hazardous |-> o.hazardous]]

NeoStr(o) ==
    "NEO " \o NeoFullname(o) \o " has a diameter of "
    \o FormatFixed(o.diameter, 3) \o " km and "
    \o (IF o.hazardous THEN "is" ELSE "is not") \o " potentially hazardous."

NeoRepr(o) ==
    "NearEarthObject(designation=" \o Repr(o.designation)
    \o ", name=" \o Repr(o.name)
    \o ", diameter=" \o FormatFixed(o.diameter, 3)
    \o ", hazardous=" \o Str(PyBool(o.hazardous)) \o ")"

(***************************************************************************)
(* CloseApproach.  The neo field is None or a reference to an element of   *)
(* neos.                                                                   *)
(***************************************************************************)
CaDesignation(kw) ==
    IF Truthy(Get(kw, "designation")) THEN Get(kw, "designation") ELSE PyStr("")

CaTime(kw) ==
    IF Truthy(Get(kw, "time")) THEN cd_to_datetime(Get(kw, "time")) ELSE None

CaDistance(kw) ==
    IF Truthy(Get(kw, "distance")) THEN ToFloat(Get(kw, "distance")) ELSE Zero(FALSE)

CaVelocity(kw) ==
    IF Truthy(Get(kw, "velocity")) THEN ToFloat(Get(kw, "velocity")) ELSE Zero(FALSE)

\* a constructor that honours the documented "neo" parameter
CaNeo_FromKwargs(kw) == Get(kw, "neo")

CaNeo(kw) == None

\* The fields are evaluated in order; the first failure is what is raised.
CaInitError(kw) ==
    IF IsError(CaTime(kw)) THEN CaTime(kw)
    ELSE IF IsError(CaDistance(kw)) THEN CaDistance(kw)
    ELSE IF IsError(CaVelocity(kw)) THEN CaVelocity(kw)
    ELSE None

InitCA(kw) ==
    [_designation |-> CaDesignation(kw),
     time |-> CaTime(kw),
     distance |-> CaDistance(kw),
     velocity |-> CaVelocity(kw),
     neo |-> CaNeo(kw)]

CaTimeStr(a) == IF a.time # None THEN datetime_to_str(a.time) ELSE "n/a date"

\* a fullname that delegates to the object's designation
CaFullname_Designation(a) ==
    IF Truthy(a.neo) THEN Str(neos[a.neo.id].designation) ELSE Str(a._designation)

CaFullname(a) ==
    IF Truthy(a.neo) THEN NeoFullname(neos[a.neo.id]) ELSE Str(a._designation)

\* a serialize that writes the time through time_str
CaSerialize_TimeStr(a) ==
    IF a.neo.t # "neo" THEN Raised("AttributeError")
    ELSE [t |-> "dict",
          d |-> [datetime_utc |-> CaTimeStr(a),
                 distance_au |-> a.distance,
                 velocity_km_s |-> a.velocity,
                 neo |-> NeoSerialize(neos[a.neo.id]).d]]

\* a serialize that tolerates an approach without an object
CaSerialize_Tolerant(a) ==
    [t |-> "dict",
     d |-> [datetime_utc |-> IF Truthy(a.time) THEN datetime_to_str(a.time) ELSE "",
            distance_au |-> a.distance,
            velocity_km_s |-> a.velocity,
            neo |-> IF a.neo.t = "neo" THEN NeoSerialize(neos[a.neo.id]).d
                    ELSE [designation |-> "", name |-> "", diameter_km |-> NaN,
                          potentially_hazardous |-> FALSE]]]

\* None has no attribute "serialize": the last entry of the dict display
\* raises AttributeError and no dict is built.
CaSerialize(a) ==
    IF a.neo.t # "neo" THEN Raised("AttributeError")
    ELSE [t |-> "dict",
          d |-> [datetime_utc |-> IF Truthy(a.time) THEN datetime_to_str(a.time) ELSE "",
                 distance_au |-> a.distance,
                 velocity_km_s |-> a.velocity,
                 neo |-> NeoSerialize(neos[a.neo.id]).d]]

CaStr(a) ==
    "On " \o CaTimeStr(a) \o ", '" \o CaFullname(a)
    \o "' approaches Earth at a distance of " \o FormatFixed(a.distance, 2)
    \o " au and a velocity of " \o FormatFixed(a.velocity, 2) \o " km/s."

CaRepr(a) ==
    "CloseApproach(time=" \o Repr(PyStr(CaTimeStr(a)))
    \o ", distance=" \o FormatFixed(a.distance, 2)
    \o ", velocity=" \o FormatFixed(a.velocity, 2)
    \o ", neo=" \o (IF a.neo.t = "neo" THEN NeoRepr(neos[a.neo.id]) ELSE Repr(a.neo))
    \o ")"

(***************************************************************************)
(* State.  neos and cas are the objects constructed so far, in order of    *)
(* construction; an object is referred to by its position.  neoKw and caKw *)
(* record the keyword arguments each object was constructed from, and      *)
(* appended the approaches appended to each object's list, in order.       *)
(* result is the outcome of the last operation.                            *)
(***************************************************************************)
Outcome(op, on, val) == [op |-> op, on |-> on, val |-> val]

Init ==
    /\ neos = <<>>
    /\ cas = <<>>
    /\ neoKw = <<>>
    /\ caKw = <<>>
    /\ appended = <<>>
    /\ result = Outcome("start", 0, None)

NeoIds == 1..Len(neos)
CaIds == 1..Len(cas)

RECURSIVE TotalAppends(_)
TotalAppends(k) == IF k = 0 THEN 0 ELSE Len(appended[k]) + TotalAppends(k - 1)

\* NearEarthObject(**kw)
NewNEO(kw) ==
    /\ Len(neos) + Len(cas) < MaxObjects
    /\ IF NeoInitRaises(kw)
       THEN /\ result' = Outcome("NewNEO", 0, NeoDiameter(kw))
            /\ UNCHANGED <<neos, neoKw, appended>>
       ELSE /\ neos' = Append(neos, InitNEO(kw))
            /\ neoKw' = Append(neoKw, kw)
            /\ appended' = Append(appended, <<>>)
            /\ result' = Outcome("NewNEO", Len(neos) + 1, None)
    /\ UNCHANGED <<cas, caKw>>

\* CloseApproach(**kw)
NewCA(kw) ==
    /\ Len(neos) + Len(cas) < MaxObjects
    /\ IF IsError(CaInitError(kw))
       THEN /\ result' = Outcome("NewCA", 0, CaInitError(kw))
            /\ UNCHANGED <<cas, caKw>>
       ELSE /\ cas' = Append(cas, InitCA(kw))
            /\ caKw' = Append(caKw, kw)
            /\ result' = Outcome("NewCA", Len(cas) + 1, None)
    /\ UNCHANGED <<neos, neoKw, appended>>

\* neo.approaches.append(approach), by a user of the public list
AppendApproach(o, a) ==
    /\ TotalAppends(Len(neos)) < MaxAppends
    /\ neos' = [neos EXCEPT ![o].approaches = Append(@, a)]
    /\ appended' = [appended EXCEPT ![o] = Append(@, a)]
    /\ result' = Outcome("AppendApproach", o, None)
    /\ UNCHANGED <<cas, neoKw, caKw>>

\* approach.neo = neo, by a user of the public attribute
SetNeo(a, o) ==
    /\ cas' = [cas EXCEPT ![a].neo = NeoRef(o)]
    /\ result' = Outcome("SetNeo", a, None)
    /\ UNCHANGED <<neos, neoKw, caKw, appended>>

\* The assembly step of the database constructor, for one approach not yet
\* linked: its designation is resolved to the object that carries it, the
\* object becomes its neo and the approach joins the object's approaches.
Link(a, o) ==
    /\ cas[a].neo = None
    /\ cas[a]._designation = neos[o].designation
    /\ TotalAppends(Len(neos)) < MaxAppends
    /\ cas' = [cas EXCEPT ![a].neo = NeoRef(o)]
    /\ neos' = [neos EXCEPT ![o].approaches = Append(@, a)]
    /\ appended' = [appended EXCEPT ![o] = Append(@, a)]
    /\ result' = Outcome("Link", a, None)
    /\ UNCHANGED <<neoKw, caKw>>

\* The accessors: each returns a value and leaves every object as it was.
Read(op, on, val) ==
    /\ result' = Outcome(op, on, val)
    /\ UNCHANGED <<neos, cas, neoKw, caKw, appended>>

ReadNeoFullname(o) == Read("neo.fullname", o, PyStr(NeoFullname(neos[o])))
ReadNeoSerialize(o) == Read("neo.serialize", o, NeoSerialize(neos[o]))
ReadNeoStr(o) == Read("neo.__str__", o, PyStr(NeoStr(neos[o])))
ReadNeoRepr(o) == Read("neo.__repr__", o, PyStr(NeoRepr(neos[o])))
ReadCaTimeStr(a) == Read("ca.time_str", a, PyStr(CaTimeStr(cas[a])))
ReadCaFullname(a) == Read("ca.fullname", a, PyStr(CaFullname(cas[a])))
ReadCaSerialize(a) == Read("ca.serialize", a, CaSerialize(cas[a]))
ReadCaStr(a) == Read("ca.__str__", a, PyStr(CaStr(cas[a])))
ReadCaRepr(a) == Read("ca.__repr__", a, PyStr(CaRepr(cas[a])))

(***************************************************************************)
(* Inputs: the keyword arguments of the constructors.                      *)
(***************************************************************************)
MakeKw(r) == [key \in {k \in DOMAIN r : r[k] # Absent} |-> r[key]]

DesignationInputs == {Absent, None, PyStr(""), PyStr("433"), PyStr("2000 AB")}
NameInputs == {Absent, None, PyStr(""), PyStr("Eros"), PyStr("'Oumuamua")}
HazardousInputs ==
    {Absent, None, PyStr("Y"), PyStr("N"), PyStr("y"), PyStr(""), PyBool(TRUE)}
TimeInputs ==
    {Absent, None, PyStr(""), PyStr("2020-Jan-01 12:00"), PyStr("bogus")}
NeoKwargsAll ==
    {MakeKw([designation |-> d, name |-> n, diameter |-> x, hazardous |-> h]) :
        d \in DesignationInputs, n \in NameInputs,
        x \in DiameterInputs, h \in HazardousInputs}

CaKwargsAll ==
    {MakeKw([designation |-> d, time |-> tm, distance |-> x, velocity |-> v]) :
        d \in {Absent, None, PyStr(""), PyStr("433")}, tm \in TimeInputs,
        x \in DistanceInputs, v \in VelocityInputs}

\* The data set of the linking behaviours: the loader constructs one object
\* per object record and one approach per approach record, in file order.
\* The records are those of the worked examples, records that carry only the
\* documented "approaches" and "neo" parameters (so an empty designation and
\* no name), and they repeat after the third.
NeoRecords ==
    <<[designation |-> PyStr("433"), name |-> PyStr("Eros"),
       diameter |-> PyStr("16.84"), hazardous |-> PyStr("Y")],
      [approaches |-> PyList(<<1>>)],
      [designation |-> PyStr("2000 AB"), name |-> None, diameter |-> None,
       hazardous |-> PyStr("N")]>>

CaRecords ==
    <<[designation |-> PyStr("433"), time |-> PyStr("2020-Jan-01 12:00"),
       distance |-> PyStr("0.5"), velocity |-> PyStr("12.3")],
      [neo |-> NeoRef(1)],
      [designation |-> PyStr("2000 AB"), time |-> PyStr(""),
       distance |-> PyStr("0"), velocity |-> None]>>

NextNeoRecord == NeoRecords[(Len(neos) % Len(NeoRecords)) + 1]
NextCaRecord == CaRecords[(Len(cas) % Len(CaRecords)) + 1]

\* An object passed as an argument exists.
RefsExist(kw) ==
    /\ "approaches" \in DOMAIN kw => \A k \in 1..Len(kw.approaches.l) :
                                        kw.approaches.l[k] \in CaIds
    /\ "neo" \in DOMAIN kw => kw.neo.id \in NeoIds

(***************************************************************************)
(* Specifications.                                                         *)
(***************************************************************************)
Next ==
    \/ RefsExist(NextNeoRecord) /\ NewNEO(NextNeoRecord)
    \/ RefsExist(NextCaRecord) /\ NewCA(NextCaRecord)
    \/ \E o \in NeoIds, a \in CaIds : AppendApproach(o, a)
    \/ \E o \in NeoIds, a \in CaIds : SetNeo(a, o)
    \/ \E o \in NeoIds, a \in CaIds : Link(a, o)
    \/ \E o \in NeoIds : ReadNeoFullname(o)
    \/ \E o \in NeoIds : ReadNeoSerialize(o)
    \/ \E o \in NeoIds : ReadNeoStr(o)
    \/ \E o \in NeoIds : ReadNeoRepr(o)
    \/ \E a \in CaIds : ReadCaTimeStr(a)
    \/ \E a \in CaIds : ReadCaFullname(a)
    \/ \E a \in CaIds : ReadCaSerialize(a)
    \/ \E a \in CaIds : ReadCaStr(a)
    \/ \E a \in CaIds : ReadCaRepr(a)

Spec == Init /\ [][Next]_vars

\* One object, constructed from any of the enumerated keyword arguments,
\* and its accessors.
NextNEO ==
    \/ \E kw \in NeoKwargsAll : neos = <<>> /\ NewNEO(kw)
    \/ \E o \in NeoIds : ReadNeoFullname(o)
    \/ \E o \in NeoIds : ReadNeoSerialize(o)
    \/ \E o \in NeoIds : ReadNeoStr(o)
    \/ \E o \in NeoIds : ReadNeoRepr(o)

SpecNEO == Init /\ [][NextNEO]_vars

\* One approach, constructed from any of the enumerated keyword arguments,
\* one object to link it to, and the approach's accessors.
NextCA ==
    \/ \E k \in {1, 3} : neos = <<>> /\ NewNEO(NeoRecords[k])
    \/ \E kw \in CaKwargsAll : cas = <<>> /\ NewCA(kw)
    \/ \E o \in NeoIds, a \in CaIds : SetNeo(a, o)
    \/ \E a \in CaIds : ReadCaTimeStr(a)
    \/ \E a \in CaIds : ReadCaFullname(a)
    \/ \E a \in CaIds : ReadCaSerialize(a)
    \/ \E a \in CaIds : ReadCaStr(a)
    \/ \E a \in CaIds : ReadCaRepr(a)

SpecCA == Init /\ [][NextCA]_vars

(***************************************************************************)
(* Properties.                                                             *)
(***************************************************************************)
KwDiameter(o) == Get(neoKw[o], "diameter")

\* C1: hazardous is true exactly when the raw 'hazardous' argument is the
\* string "Y"; absent, None, "N", "y", "" and True all give false.
C1_HazardousIffY ==
    \A o \in NeoIds :
        LET h == Get(neoKw[o], "hazardous")
        IN  /\ neos[o].hazardous = (h = PyStr("Y"))
            /\ h \in {None, PyStr("N"), PyStr("y"), PyStr(""), PyBool(TRUE)}
                  => neos[o].hazardous = FALSE

C1_Witness ==
    /\ \E o \in NeoIds : Get(neoKw[o], "hazardous") = PyStr("Y")
                         /\ neos[o].hazardous = TRUE
    /\ result.op = "NewNEO"

\* C2, as claimed: an absent or zero diameter argument, whatever form the
\* zero takes (0, 0.0, "0", "0.0"), gives NaN, and every other truthy numeric
\* argument gives its float coercion.
C2_ZeroInAnyFormIsNaN ==
    \A o \in NeoIds :
        LET d == KwDiameter(o)
        IN  IF d \in {None, PyInt(0), Zero(FALSE), PyStr("0"), PyStr("0.0")}
            THEN neos[o].diameter = NaN
            ELSE Truthy(d) => neos[o].diameter = ToFloat(d)

\* C2, amended: an absent, None, empty-string or numeric zero (0, 0.0)
\* diameter argument gives NaN; every other argument that float() accepts,
\* the strings "0" and "0.0" included (they give 0.0), gives its float
\* coercion.
C2_FalsyIsNaN ==
    \A o \in NeoIds :
        LET d == KwDiameter(o)
        IN  /\ IF d \in {None, PyInt(0), Zero(FALSE), PyStr("")}
               THEN neos[o].diameter = NaN
               ELSE neos[o].diameter = ToFloat(d)
            /\ d \in {PyStr("0"), PyStr("0.0")} => neos[o].diameter = Zero(FALSE)
            /\ d = PyStr("16.84") => neos[o].diameter = Float(FALSE, "4740038607807447", -48)
            /\ d = PyInt(2) => neos[o].diameter = Float(FALSE, "1", 1)
            /\ d = PyStr("1e3") => neos[o].diameter = Float(FALSE, "125", 3)
            /\ d = PyStr(NoBreakSpace \o " 1.5\n") => neos[o].diameter = Float(FALSE, "3", -1)
            /\ d = PyStr("1.2349")
                  => neos[o].diameter = Float(FALSE, "2780747589919913", -51)
            /\ d = PyStr("-0") => neos[o].diameter = Zero(TRUE)

C2_Witness ==
    \E o \in NeoIds : KwDiameter(o) = PyStr("0") /\ neos[o].diameter = Zero(FALSE)

\* C3, as claimed: the diameter of every constructed object is a
\* non-negative finite number or NaN.
C3_NonNegativeFiniteOrNaN ==
    \A o \in NeoIds :
        \/ neos[o].diameter = NaN
        \/ neos[o].diameter.k = "fin" /\ ~IsNegative(neos[o].diameter)

\* C3, amended: the diameter of every constructed object is a float, NaN
\* for a falsy argument and the float coercion of a truthy one; the
\* constructor checks no range, so the diameter is non-negative and finite or
\* NaN except where float() of the argument is negative or infinite, which
\* is stored as it is: "-1" gives -1.0, "inf" infinity, "-inf" minus infinity
\* and "1e400", a numeral beyond the largest double, infinity.
C3_RangeIsTheInputs ==
    \A o \in NeoIds :
        LET d == KwDiameter(o)
            x == neos[o].diameter
        IN  /\ x.t = "float"
            /\ d = PyStr("-1") => x = Float(TRUE, "1", 0)
            /\ d = PyStr("inf") => x = PosInf
            /\ d = PyStr("-inf") => x = NegInf
            /\ d = PyStr("1e400") => x = PosInf
            /\ (x = NaN \/ (x.k = "fin" /\ ~IsNegative(x)))
                  <=> ~(/\ Truthy(d)
                        /\ \/ IsNegative(ToFloat(d))
                           \/ ToFloat(d).k \in {"inf", "ninf"})
            /\ d \notin {PyStr("-1"), PyStr("inf"), PyStr("-inf"), PyStr("1e400")}
                  => (x = NaN \/ (x.k = "fin" /\ ~IsNegative(x)))

C3_Witness ==
    \E o \in NeoIds :
        KwDiameter(o) = PyStr("1e400") /\ neos[o].diameter = PosInf

\* C4: an absent or falsy name argument (None, "") is stored as None and any
\* other name exactly as given; fullname is "designation (name)" exactly when
\* the stored name is not None and the bare designation otherwise.
C4_NameAndFullname ==
    /\ \A o \in NeoIds :
          LET n == Get(neoKw[o], "name")
          IN  /\ n \in {None, PyStr("")} => neos[o].name = None
              /\ n \notin {None, PyStr("")} => neos[o].name = n
              /\ neos[o].name # PyStr("")
    /\ result.op = "neo.fullname" =>
          LET o == neos[result.on]
          IN  result.val = PyStr(IF o.name # None
                                 THEN o.designation.s \o " (" \o o.name.s \o ")"
                                 ELSE o.designation.s)

C4_Witness ==
    /\ result.op = "neo.fullname"
    /\ neos[result.on].name = PyStr("Eros")
    /\ result.val = PyStr("433 (Eros)")

\* C5: serialize gives exactly the keys designation, name, diameter_km and
\* potentially_hazardous: the designation as text, the stored name or "" when
\* it is None (never "None"), the stored diameter and the stored flag; the
\* object of the worked example gives
\* {'designation': '2000 AB', 'name': '', 'diameter_km': NaN,
\*  'potentially_hazardous': False}.
C5_NeoSerialize ==
    result.op = "neo.serialize" =>
        LET o == neos[result.on]
            kw == neoKw[result.on]
        IN  /\ result.val.t = "dict"
            /\ DOMAIN result.val.d =
                  {"designation", "name", "diameter_km", "potentially_hazardous"}
            /\ result.val.d.designation = o.designation.s
            /\ result.val.d.name = (IF o.name = None THEN "" ELSE o.name.s)
            /\ result.val.d.name # "None"
            /\ result.val.d.diameter_km = o.diameter
            /\ result.val.d.potentially_hazardous = o.hazardous
            /\ kw = [designation |-> PyStr("2000 AB"), name |-> None,
                     diameter |-> None, hazardous |-> PyStr("N")]
                  => result.val.d = [designation |-> "2000 AB", name |-> "",
                                     diameter_km |-> NaN,
                                     potentially_hazardous |-> FALSE]

C5_Witness ==
    /\ result.op = "neo.serialize"
    /\ neos[result.on].name = None
    /\ result.val.d = [designation |-> "2000 AB", name |-> "",
                       diameter_km |-> NaN, potentially_hazardous |-> FALSE]

FalsyNumbers == {None, PyStr(""), PyInt(0), Zero(FALSE)}

\* C6: serialize of a linked approach gives exactly the keys datetime_utc,
\* distance_au, velocity_km_s and neo: the float coercions of the distance and
\* velocity arguments (0.0 for an absent or falsy one), the formatted time
\* (the string time_str gives) when time is not None and "" when it is, and
\* the linked object's own serialize mapping, nested.
C6_CaSerialize ==
    (result.op = "ca.serialize" /\ cas[result.on].neo # None) =>
        LET a == cas[result.on]
            x == Get(caKw[result.on], "distance")
            v == Get(caKw[result.on], "velocity")
        IN  /\ result.val.t = "dict"
            /\ DOMAIN result.val.d =
                  {"datetime_utc", "distance_au", "velocity_km_s", "neo"}
            /\ result.val.d.distance_au =
                  (IF x \in FalsyNumbers THEN Zero(FALSE) ELSE ToFloat(x))
            /\ result.val.d.velocity_km_s =
                  (IF v \in FalsyNumbers THEN Zero(FALSE) ELSE ToFloat(v))
            /\ x = PyStr("0.015")
                  => result.val.d.distance_au =
                        Float(FALSE, "1080863910568919", -56)
            /\ v = PyStr("1_0.5e1")
                  => result.val.d.velocity_km_s = Float(FALSE, "105", 0)
            /\ result.val.d.datetime_utc =
                  (IF a.time # None THEN CaTimeStr(a) ELSE "")
            /\ result.val.d.neo = NeoSerialize(neos[a.neo.id]).d

C6_Witness ==
    /\ result.op = "ca.serialize"
    /\ cas[result.on].neo = NeoRef(1)
    /\ result.val.t = "dict"
    /\ result.val.d.datetime_utc = "2020-Jan-01 12:00"
    /\ result.val.d.distance_au = Float(FALSE, "1", -1)
    /\ result.val.d.neo.designation = "2000 AB"

\* C7: serialize of an approach whose neo is still None raises an error
\* instead of returning a mapping, and the failed call changes no field of
\* any approach or object.
C7_UnlinkedSerializeFails ==
    [][\A a \in CaIds :
          (result'.op = "ca.serialize" /\ result'.on = a /\ cas[a].neo = None)
              => (IsError(result'.val) /\ cas' = cas /\ neos' = neos)]_vars

C7_Witness ==
    /\ result.op = "ca.serialize"
    /\ cas[result.on].neo = None
    /\ result.val = Raised("AttributeError")
    /\ cas[result.on].time # None

\* C8: the approach's fullname follows the link: while neo is None, as it is
\* after construction, it is the stored designation ("" for an absent or
\* falsy designation argument); once neo is an object it is that object's
\* fullname, whatever the object, one with an empty designation and no name
\* included; the stored designation stays what construction made it.
C8_FullnameFollowsLink ==
    /\ \A a \in CaIds :
          LET d == Get(caKw[a], "designation")
          IN  cas[a]._designation = (IF d \in {None, PyStr("")} THEN PyStr("") ELSE d)
    /\ (result.op = "NewCA" /\ result.on > 0) => cas[result.on].neo = None
    /\ result.op = "ca.fullname" =>
          LET a == cas[result.on]
          IN  result.val = PyStr(IF a.neo = None THEN a._designation.s
                                 ELSE NeoFullname(neos[a.neo.id]))

C8_Witness ==
    /\ result.op = "ca.fullname"
    /\ cas[result.on]._designation = PyStr("433")
    /\ cas[result.on].neo = NeoRef(2)
    /\ neos[2].designation = PyStr("") /\ neos[2].name = None
    /\ result.val = PyStr("")

\* C9: a new object's approaches are empty whatever it is constructed from,
\* an 'approaches' argument included, and after any interleaving of appends
\* with the accessors of the objects and approaches each object's sequence
\* holds exactly the approaches appended to it, in the order appended.
C9_ApproachesAreTheAppends ==
    /\ \A o \in NeoIds : neos[o].approaches = appended[o]
    /\ (result.op = "NewNEO" /\ result.on > 0) => neos[result.on].approaches = <<>>

C9_Witness ==
    /\ Len(neos) >= 2
    /\ "approaches" \in DOMAIN neoKw[2]
    /\ neos[2].approaches = <<2, 1>>
    /\ neos[1].approaches = <<>>
    /\ result.op = "ca.__repr__"

InApproaches(o, a) ==
    \E k \in 1..Len(neos[o].approaches) : neos[o].approaches[k] = a

LinkConsistent ==
    \A o \in NeoIds, a \in CaIds : InApproaches(o, a) <=> cas[a].neo = NeoRef(o)

\* C10, as claimed: in every state reached by constructing entities and
\* using the two public mutation points, an approach is in an object's
\* approaches exactly when the object is its neo.
C10_AlwaysConsistent == LinkConsistent

\* C10, amended: the two sides are consistent after every construction and
\* stay consistent over every step that links an unlinked approach on both
\* sides together (the assembly step) and over every accessor; the entities
\* do not enforce it, and an append without the neo assignment, or the
\* assignment without the append, breaks it.
C10_ConsistentUnlessHalfLinked ==
    [][(LinkConsistent /\ result'.op \notin {"AppendApproach", "SetNeo"})
          => LinkConsistent']_vars

C10_Witness ==
    /\ result.op = "Link"
    /\ LinkConsistent
    /\ \E o \in NeoIds : neos[o].approaches # <<>>
    /\ Len(neos) >= 2 /\ Len(cas) >= 2

====
